---- MODULE Spec2Model ----
(***************************************************************************)
(* Model of the XPath 1.0 expression evaluation core of sxd-xpath          *)
(* (src/src/expression.rs).                                                *)
(*                                                                         *)
(* An expression is a record tagged by `kind`; `Evaluate(e, ctx)` is the   *)
(* trait method Expression::evaluate, dispatching to one operator per      *)
(* variant.  Every evaluation returns a result record                      *)
(*     [status, val, err, log]                                             *)
(* where status is "ok" (Ok(val)), "err" (Err(err)) or "panic" (the test   *)
(* module's FailExpression unwinds), and log is the sequence of events the *)
(* evaluation performed, in order: sub-expression evaluations, predicate   *)
(* selections, axis invocations and function calls.                        *)
(*                                                                         *)
(* Nodes are the integers 1..NumNodes, numbered in document order: node 1  *)
(* is the document root and the other nodes are its children.  A Nodeset   *)
(* is a set of nodes (a HashSet in the code); the order in which a         *)
(* HashSet is iterated is arbitrary and is an input (ctx.hash).            *)
(*                                                                         *)
(* Strings are sequences of one-character strings.  An f64 is a record     *)
(* [cls, h]: cls is "fin", "nan", "inf" or "ninf", and for a finite        *)
(* number h is the value in hundredths (3.14 is h = 314).                  *)
(***************************************************************************)
EXTENDS Integers, Sequences, FiniteSets, TLC

VARIABLES expr, context, outcome

vars == <<expr, context, outcome>>

\* Bound of the model: the number of nodes of the document.
NumNodes == 3

Nodes == 1 .. NumNodes

\* The document root: the first node in document order.
RootOfDocument == CHOOSE n \in Nodes : \A m \in Nodes : n <= m

----------------------------------------------------------------------------
(* f64 *)

Fin(h) == [cls |-> "fin", h |-> h]

Num(i) == Fin(i * 100)

NaN == [cls |-> "nan", h |-> 0]

Infinity == [cls |-> "inf", h |-> 0]

NegInfinity == [cls |-> "ninf", h |-> 0]

\* `==` on f64: NaN equals nothing, itself included.
F64Eq(a, b) == a.cls # "nan" /\ b.cls # "nan" /\ a = b

\* `<` on f64: false as soon as one side is NaN.
F64Lt(a, b) ==
    /\ a.cls # "nan"
    /\ b.cls # "nan"
    /\ \/ a.cls = "ninf" /\ b.cls # "ninf"
       \/ a.cls = "fin" /\ b.cls = "inf"
       \/ a.cls = "fin" /\ b.cls = "fin" /\ a.h < b.h

\* unary minus on f64 (the sign of zero is not modelled).
F64Neg(a) ==
    CASE a.cls = "fin" -> Fin(0 - a.h)
      [] a.cls = "inf" -> NegInfinity
      [] a.cls = "ninf" -> Infinity
      [] OTHER -> NaN

\* a + b on f64.
F64Add(a, b) ==
    CASE a.cls = "nan" \/ b.cls = "nan" -> NaN
      [] a.cls = "fin" /\ b.cls = "fin" -> Fin(a.h + b.h)
      [] a.cls = "fin" -> b
      [] b.cls = "fin" -> a
      [] a.cls = b.cls -> a
      [] OTHER -> NaN

----------------------------------------------------------------------------
(* Strings and the XPath number() parse of a string *)

Digits == <<"0", "1", "2", "3", "4", "5", "6", "7", "8", "9">>

IsDigit(c) == \E i \in 1 .. 10 : Digits[i] = c

DigitVal(c) == (CHOOSE i \in 1 .. 10 : Digits[i] = c) - 1

IsSpace(c) == c = " "

RECURSIVE TrimLeft(_)
TrimLeft(s) ==
    IF Len(s) > 0 /\ IsSpace(s[1]) THEN TrimLeft(Tail(s)) ELSE s

RECURSIVE TrimRight(_)
TrimRight(s) ==
    IF Len(s) > 0 /\ IsSpace(s[Len(s)])
    THEN TrimRight(SubSeq(s, 1, Len(s) - 1))
    ELSE s

RECURSIVE DigitsToNat(_)
DigitsToNat(s) ==
    IF Len(s) = 0
    THEN 0
    ELSE 10 * DigitsToNat(SubSeq(s, 1, Len(s) - 1)) + DigitVal(s[Len(s)])

\* The hundredths of a fraction's digits; digits past the second are below
\* the resolution of the number model.
FractionHundredths(f) ==
    CASE Len(f) = 0 -> 0
      [] Len(f) = 1 -> 10 * DigitVal(f[1])
      [] OTHER -> 10 * DigitVal(f[1]) + DigitVal(f[2])

\* The number written as the digits ip, a point and the digits fp; NaN unless
\* both are digits only and there is at least one.
NumberOfParts(ip, fp) ==
    IF /\ \A i \in 1 .. Len(ip) : IsDigit(ip[i])
       /\ \A i \in 1 .. Len(fp) : IsDigit(fp[i])
       /\ Len(ip) + Len(fp) > 0
    THEN Fin(DigitsToNat(ip) * 100 + FractionHundredths(fp))
    ELSE NaN

\* The index of the first "." of body, Len(body) + 1 if it has none.
FirstDot(body) ==
    IF \E i \in 1 .. Len(body) : body[i] = "."
    THEN CHOOSE i \in 1 .. Len(body) :
            body[i] = "." /\ \A j \in 1 .. i - 1 : body[j] # "."
    ELSE Len(body) + 1

\* Digits ('.' Digits?)? | '.' Digits, split at its point.
NumberSplitAt(body, dot) ==
    NumberOfParts(SubSeq(body, 1, dot - 1), SubSeq(body, dot + 1, Len(body)))

UnsignedNumber(body) == NumberSplitAt(body, FirstDot(body))

\* An optional minus sign followed by a Number.
SignedNumber(t) ==
    IF Len(t) > 0 /\ t[1] = "-"
    THEN F64Neg(UnsignedNumber(Tail(t)))
    ELSE UnsignedNumber(t)

\* Value::String(s).number(): optional whitespace, an optional minus sign, a
\* Number, optional whitespace; anything else is NaN.
StringToNumber(s) == SignedNumber(TrimRight(TrimLeft(s)))

----------------------------------------------------------------------------
(* Value: the four-way union, as a record with one field per case *)

BooleanValue(b) ==
    [kind |-> "Boolean", bool |-> b, num |-> Fin(0), str |-> <<>>, nodes |-> {}]

NumberValue(n) ==
    [kind |-> "Number", bool |-> FALSE, num |-> n, str |-> <<>>, nodes |-> {}]

StringValue(s) ==
    [kind |-> "String", bool |-> FALSE, num |-> Fin(0), str |-> s, nodes |-> {}]

NodesetValue(ns) ==
    [kind |-> "Nodeset", bool |-> FALSE, num |-> Fin(0), str |-> <<>>, nodes |-> ns]

\* The node of a non-empty set that is first in document order.
FirstInDocument(ns) == CHOOSE n \in ns : \A m \in ns : n <= m

\* Nodeset::document_order: the nodes of the set, sorted by document order.
RECURSIVE DocumentOrder(_)
DocumentOrder(ns) ==
    IF ns = {}
    THEN <<>>
    ELSE <<FirstInDocument(ns)>> \o DocumentOrder(ns \ {FirstInDocument(ns)})

\* The node of a non-empty set that a HashSet in hash state `hash` yields
\* first: `hash` ranks the nodes.
FirstIterated(ns, hash) == CHOOSE n \in ns : \A m \in ns : hash[n] <= hash[m]

\* Nodeset::iter: the nodes of the set in the HashSet's iteration order.
RECURSIVE IterationOrder(_, _)
IterationOrder(ns, hash) ==
    IF ns = {}
    THEN <<>>
    ELSE <<FirstIterated(ns, hash)>>
            \o IterationOrder(ns \ {FirstIterated(ns, hash)}, hash)

\* OrderedNodes -> Nodeset (`into`): the set of the sequence's nodes.
IntoNodeset(nodes) == {nodes[i] : i \in 1 .. Len(nodes)}

\* Node::string_value, read from the document the node belongs to.
NodeStringValue(doc, n) == doc.text[n]

\* Value::boolean
ValueBoolean(v) ==
    CASE v.kind = "Boolean" -> v.bool
      [] v.kind = "Number" -> ~(v.num.cls = "nan" \/ v.num = Fin(0))
      [] v.kind = "String" -> v.str # <<>>
      [] OTHER -> v.nodes # {}

\* Value::string of a string, a nodeset (the string-value of the node that is
\* first in document order, the empty string for the empty nodeset) or a
\* boolean.  The expressions of this module never take the string of a
\* number, and the number-to-string conversion is not modelled.
ValueString(v, doc) ==
    CASE v.kind = "String" -> v.str
      [] v.kind = "Nodeset" ->
            IF v.nodes = {} THEN <<>>
            ELSE NodeStringValue(doc, DocumentOrder(v.nodes)[1])
      [] v.kind = "Boolean" ->
            IF v.bool THEN <<"t", "r", "u", "e">> ELSE <<"f", "a", "l", "s", "e">>

\* Value::number
ValueNumber(v, doc) ==
    CASE v.kind = "Number" -> v.num
      [] v.kind = "Boolean" -> IF v.bool THEN Num(1) ELSE Num(0)
      [] v.kind = "String" -> StringToNumber(v.str)
      [] OTHER -> StringToNumber(ValueString(v, doc))

----------------------------------------------------------------------------
(* Error, Result and the event log *)

NoName == [prefix |-> <<>>, local |-> ""]

NoError == [kind |-> "None", name |-> NoName, prefix |-> "", inner |-> ""]

NotANodeset == [NoError EXCEPT !.kind = "NotANodeset"]

UnknownFunction(name) == [NoError EXCEPT !.kind = "UnknownFunction", !.name = name]

UnknownVariable(name) == [NoError EXCEPT !.kind = "UnknownVariable", !.name = name]

UnknownNamespace(prefix) ==
    [NoError EXCEPT !.kind = "UnknownNamespace", !.prefix = prefix]

FunctionEvaluation(inner) ==
    [NoError EXCEPT !.kind = "FunctionEvaluation", !.inner = inner]

NoValue == BooleanValue(FALSE)

\* Ok(v), having performed the events of log.
Ok(v, log) == [status |-> "ok", val |-> v, err |-> NoError, log |-> log]

\* Err(e), having performed the events of log.
Err(e, log) == [status |-> "err", val |-> NoValue, err |-> e, log |-> log]

\* A panic unwinding through the evaluation.
Panic(log) == [status |-> "panic", val |-> NoValue, err |-> NoError, log |-> log]

\* The result r reached after the events in `before`.  With a result that is
\* not Ok this is `try!` / `?`: the error (or the unwinding) goes to the
\* caller unchanged.
After(before, r) == [r EXCEPT !.log = before \o @]

\* One event of an evaluation, in the context c it happened in.
Event(op, what, c, nodes) ==
    [op |-> op, what |-> what, node |-> c.node, position |-> c.position,
     size |-> c.size, nodes |-> nodes]

----------------------------------------------------------------------------
(* context::Evaluation *)

\* Evaluation::new_context_for
NewContextFor(ctx, node) ==
    [ctx EXCEPT !.node = node, !.position = 1, !.size = 1]

\* Evaluation::new_contexts_for: one context per node of the sequence, with
\* position 1..N and size N.
NewContextsFor(ctx, nodes) ==
    [i \in 1 .. Len(nodes) |->
        [ctx EXCEPT !.node = nodes[i], !.position = i, !.size = Len(nodes)]]

\* QName::with_namespace_uri
QName(uri, local) == <<uri, local>>

\* Evaluation::namespace_for: Some(uri) as <<uri>>, None as <<>>.
NamespaceFor(ctx, prefix) ==
    IF prefix \in DOMAIN ctx.namespaces THEN <<ctx.namespaces[prefix]>> ELSE <<>>

\* Evaluation::value_of: Some(value) as <<value>>, None as <<>>.
ValueOf(ctx, qname) ==
    IF qname \in DOMAIN ctx.variables THEN <<ctx.variables[qname]>> ELSE <<>>

\* Evaluation::function_for_name: Some(fun) as <<fun>>, None as <<>>.
FunctionForName(ctx, qname) ==
    IF qname \in DOMAIN ctx.functions THEN <<ctx.functions[qname]>> ELSE <<>>

\* function::Function::evaluate of the functions a context may bind: one that
\* returns a fixed value (the tests' StubFunction), position(), last(), one
\* whose value depends on the context position, one that fails, and one that
\* returns the argument of a given index.
FunctionApply(fun, ctx, args) ==
    CASE fun.kind = "stub" -> [ok |-> TRUE, val |-> fun.value, err |-> ""]
      [] fun.kind = "position" ->
            [ok |-> TRUE, val |-> NumberValue(Num(ctx.position)), err |-> ""]
      [] fun.kind = "last" ->
            [ok |-> TRUE, val |-> NumberValue(Num(ctx.size)), err |-> ""]
      [] fun.kind = "by-position" ->
            [ok |-> TRUE,
             val |-> IF ctx.position = 1 THEN fun.value
                     ELSE NumberValue(Num(ctx.position)),
             err |-> ""]
      [] fun.kind = "fails" -> [ok |-> FALSE, val |-> NoValue, err |-> fun.error]
      [] fun.kind = "argument" ->
            IF fun.value.num.h \div 100 \in DOMAIN args
            THEN [ok |-> TRUE, val |-> args[fun.value.num.h \div 100],
                  err |-> ""]
            ELSE [ok |-> FALSE, val |-> NoValue, err |-> "TooFewArguments"]

----------------------------------------------------------------------------
(* Expressions.  An operator that needs the result of a sub-evaluation more *)
(* than once takes it as a parameter: XEvaluate passes Evaluate(operand) to *)
(* the operator that models the rest of X::evaluate.                        *)

RECURSIVE Evaluate(_, _)

\* value_into_nodeset, applied (try!, and_then) to the result r of evaluating
\* the operand: an error passes through.
\* value_into_nodeset with an arm that takes a value of another kind for the
\* empty nodeset.
value_into_nodeset_or_empty(r) ==
    IF r.status # "ok" THEN r
    ELSE IF r.val.kind = "Nodeset" THEN Ok(r.val.nodes, r.log)
    ELSE Ok({}, r.log)

value_into_nodeset(r) ==
    IF r.status # "ok" THEN r
    ELSE IF r.val.kind = "Nodeset" THEN Ok(r.val.nodes, r.log)
    ELSE Err(NotANodeset, r.log)

\* value_into_ordered_nodes without document_order(): the nodes in the order
\* a HashSet happens to iterate them, here the last in the document first.
value_into_iterated_nodes(r) ==
    IF r.status # "ok" THEN r
    ELSE IF r.val.kind = "Nodeset"
    THEN Ok(IterationOrder(r.val.nodes, [n \in Nodes |-> 0 - n]), r.log)
    ELSE Err(NotANodeset, r.log)

\* value_into_ordered_nodes, applied (and_then) to the result r of evaluating
\* the operand: an error passes through.
value_into_ordered_nodes(r) ==
    IF r.status # "ok" THEN r
    ELSE IF r.val.kind = "Nodeset" THEN Ok(DocumentOrder(r.val.nodes), r.log)
    ELSE Err(NotANodeset, r.log)

\* The two `try!(operand.evaluate(context))` that open a binary expression:
\* the right operand is evaluated only if the left one is Ok.
TryBoth(l, r) ==
    IF l.status # "ok" THEN l
    ELSE IF r.status # "ok" THEN After(l.log, r)
    ELSE Ok(<<l.val, r.val>>, l.log \o r.log)

\* And::evaluate, line 96 with the right operand evaluated to r.
AndRight(l, r) ==
    IF r.status # "ok" THEN After(l.log, r)
    ELSE Ok(BooleanValue(ValueBoolean(r.val)), l.log \o r.log)

\* And::evaluate with `&` for `&&`: the right operand is always evaluated.
AndLeftEager(e, ctx, l) ==
    IF l.status # "ok" THEN l
    ELSE AndRight(l,
                  [Evaluate(e.right, ctx) EXCEPT
                      !.val = BooleanValue(ValueBoolean(l.val) /\ ValueBoolean(@))])

\* And::evaluate, from the left operand's result l on.
AndLeft(e, ctx, l) ==
    IF l.status # "ok" THEN l
    ELSE IF ~ValueBoolean(l.val) THEN Ok(BooleanValue(FALSE), l.log)
    ELSE AndRight(l, Evaluate(e.right, ctx))

\* And::evaluate
AndEvaluate(e, ctx) == AndLeft(e, ctx, Evaluate(e.left, ctx))

\* Or::evaluate, line 294 with the right operand evaluated to r.
OrRight(l, r) ==
    IF r.status # "ok" THEN After(l.log, r)
    ELSE Ok(BooleanValue(ValueBoolean(r.val)), l.log \o r.log)

\* Or::evaluate, from the left operand's result l on.
OrLeft(e, ctx, l) ==
    IF l.status # "ok" THEN l
    ELSE IF ValueBoolean(l.val) THEN Ok(BooleanValue(TRUE), l.log)
    ELSE OrRight(l, Evaluate(e.right, ctx))

\* Or::evaluate
OrEvaluate(e, ctx) == OrLeft(e, ctx, Evaluate(e.left, ctx))

\* ContextNode::evaluate
ContextNodeEvaluate(e, ctx) == Ok(NodesetValue({ctx.node}), <<>>)

\* RootNode::evaluate
RootNodeEvaluate(e, ctx) == Ok(NodesetValue({RootOfDocument}), <<>>)

\* Literal::evaluate
LiteralEvaluate(e, ctx) == Ok(e.value, <<>>)

\* The tests' FailExpression::evaluate
FailExpressionEvaluate(e, ctx) == Panic(<<>>)

\* str_vals of Equal::boolean_evaluate
str_vals(nodes, doc) == {NodeStringValue(doc, n) : n \in nodes}

\* num_vals of Equal::boolean_evaluate (a Vec in the code, used only by `any`)
num_vals(nodes, doc) == {StringToNumber(NodeStringValue(doc, n)) : n \in nodes}

\* The match of Equal::boolean_evaluate with the Number arms before the
\* Boolean arms.
EqualValuesNumberFirst(left_val, right_val, doc) ==
    CASE left_val.kind = "Nodeset" /\ right_val.kind = "Nodeset" ->
            str_vals(left_val.nodes, doc) \cap str_vals(right_val.nodes, doc) # {}
      [] left_val.kind = "Nodeset" /\ right_val.kind = "Number" ->
            \E n \in num_vals(left_val.nodes, doc) : F64Eq(n, right_val.num)
      [] left_val.kind = "Number" /\ right_val.kind = "Nodeset" ->
            \E n \in num_vals(right_val.nodes, doc) : F64Eq(n, left_val.num)
      [] left_val.kind = "Nodeset" /\ right_val.kind = "String" ->
            right_val.str \in str_vals(left_val.nodes, doc)
      [] left_val.kind = "String" /\ right_val.kind = "Nodeset" ->
            left_val.str \in str_vals(right_val.nodes, doc)
      [] left_val.kind = "Number" \/ right_val.kind = "Number" ->
            F64Eq(ValueNumber(left_val, doc), ValueNumber(right_val, doc))
      [] left_val.kind = "Boolean" \/ right_val.kind = "Boolean" ->
            ValueBoolean(left_val) = ValueBoolean(right_val)
      [] OTHER -> ValueString(left_val, doc) = ValueString(right_val, doc)

\* The match of Equal::boolean_evaluate with a nodeset compared by the
\* string-value of its first node only.
EqualValuesFirstNode(left_val, right_val, doc) ==
    CASE left_val.kind = "Boolean" \/ right_val.kind = "Boolean" ->
            ValueBoolean(left_val) = ValueBoolean(right_val)
      [] left_val.kind = "Number" \/ right_val.kind = "Number" ->
            F64Eq(ValueNumber(left_val, doc), ValueNumber(right_val, doc))
      [] OTHER -> ValueString(left_val, doc) = ValueString(right_val, doc)

\* The match of Equal::boolean_evaluate on the two operand values.
EqualValues(left_val, right_val, doc) ==
    CASE left_val.kind = "Nodeset" /\ right_val.kind = "Nodeset" ->
            str_vals(left_val.nodes, doc) \cap str_vals(right_val.nodes, doc) # {}
      [] left_val.kind = "Nodeset" /\ right_val.kind = "Number" ->
            \E n \in num_vals(left_val.nodes, doc) : F64Eq(n, right_val.num)
      [] left_val.kind = "Number" /\ right_val.kind = "Nodeset" ->
            \E n \in num_vals(right_val.nodes, doc) : F64Eq(n, left_val.num)
      [] left_val.kind = "Nodeset" /\ right_val.kind = "String" ->
            right_val.str \in str_vals(left_val.nodes, doc)
      [] left_val.kind = "String" /\ right_val.kind = "Nodeset" ->
            left_val.str \in str_vals(right_val.nodes, doc)
      [] left_val.kind = "Boolean" \/ right_val.kind = "Boolean" ->
            ValueBoolean(left_val) = ValueBoolean(right_val)
      [] left_val.kind = "Number" \/ right_val.kind = "Number" ->
            F64Eq(ValueNumber(left_val, doc), ValueNumber(right_val, doc))
      [] OTHER -> ValueString(left_val, doc) = ValueString(right_val, doc)

\* Equal::boolean_evaluate, from the two operands' results on; the bool is
\* carried in val.
EqualOperands(ctx, both) ==
    IF both.status # "ok" THEN both
    ELSE Ok(EqualValues(both.val[1], both.val[2], ctx.doc), both.log)

\* Equal::boolean_evaluate
EqualBooleanEvaluate(e, ctx) ==
    EqualOperands(ctx, TryBoth(Evaluate(e.left, ctx), Evaluate(e.right, ctx)))

\* `.map(Boolean)` of Equal::evaluate
MapBoolean(b) ==
    IF b.status # "ok" THEN b ELSE Ok(BooleanValue(b.val), b.log)

\* Equal::evaluate
EqualEvaluate(e, ctx) == MapBoolean(EqualBooleanEvaluate(e, ctx))

\* NotEqual::evaluate without the `!`.
MapNotBooleanUnnegated(b) ==
    IF b.status # "ok" THEN b ELSE Ok(BooleanValue(b.val), b.log)

\* `.map(|v| Boolean(!v))` of NotEqual::evaluate
MapNotBoolean(b) ==
    IF b.status # "ok" THEN b ELSE Ok(BooleanValue(~b.val), b.log)

\* NotEqual::evaluate
NotEqualEvaluate(e, ctx) == MapNotBoolean(EqualBooleanEvaluate(e.equal, ctx))

\* The `operation` of a Math: add and subtract (multiply, divide and modulus
\* leave the number model and are not modelled; none of them can fail).
MathOperation(op, a, b) ==
    CASE op = "add" -> F64Add(a, b)
      [] op = "subtract" -> F64Add(a, F64Neg(b))

\* Math::evaluate, from the two operands' results on.
MathOperands(e, ctx, both) ==
    IF both.status # "ok" THEN both
    ELSE Ok(NumberValue(MathOperation(e.operation,
                                      ValueNumber(both.val[1], ctx.doc),
                                      ValueNumber(both.val[2], ctx.doc))),
            both.log)

\* Math::evaluate
MathEvaluate(e, ctx) ==
    MathOperands(e, ctx, TryBoth(Evaluate(e.left, ctx), Evaluate(e.right, ctx)))

\* Negation::evaluate, from the operand's result on.
NegationOperand(ctx, r) ==
    IF r.status # "ok" THEN r
    ELSE Ok(NumberValue(F64Neg(ValueNumber(r.val, ctx.doc))), r.log)

\* Negation::evaluate
NegationEvaluate(e, ctx) == NegationOperand(ctx, Evaluate(e.expression, ctx))

\* The `operation` of a Relational: less_than .. greater_than_or_equal.
RelationalOperation(op, a, b) ==
    CASE op = "less_than" -> F64Lt(a, b)
      [] op = "less_than_or_equal" -> F64Lt(a, b) \/ F64Eq(a, b)
      [] op = "greater_than" -> F64Lt(b, a)
      [] op = "greater_than_or_equal" -> F64Lt(b, a) \/ F64Eq(a, b)

\* Relational::evaluate, from the two operands' results on.
RelationalOperands(e, ctx, both) ==
    IF both.status # "ok" THEN both
    ELSE Ok(BooleanValue(RelationalOperation(e.operation,
                                             ValueNumber(both.val[1], ctx.doc),
                                             ValueNumber(both.val[2], ctx.doc))),
            both.log)

\* Relational::evaluate
RelationalEvaluate(e, ctx) ==
    RelationalOperands(e, ctx,
                       TryBoth(Evaluate(e.left, ctx), Evaluate(e.right, ctx)))

\* resolve_prefixed_name, with the prefix looked up: uri is Some(uri) as
\* <<uri>>, None as <<>>.
\* resolve_prefixed_name with a prefix that has no binding taken for no
\* prefix at all.
ResolvedOrUnprefixed(name, uri) ==
    IF uri = <<>>
    THEN Ok(QName(<<>>, name.local), <<>>)
    ELSE Ok(QName(uri, name.local), <<>>)

ResolvedWith(name, uri) ==
    IF uri = <<>>
    THEN Err(UnknownNamespace(name.prefix[1]), <<>>)
    ELSE Ok(QName(uri, name.local), <<>>)

\* resolve_prefixed_name: Ok(QName) or Err(UnknownNamespace(prefix)).  A name
\* is [prefix, local]; prefix is <<>> (None) or <<p>> (Some(p)).
resolve_prefixed_name(ctx, name) ==
    IF name.prefix = <<>>
    THEN Ok(QName(<<>>, name.local), <<>>)
    ELSE ResolvedWith(name, NamespaceFor(ctx, name.prefix[1]))

\* Variable::evaluate, the lookup: bound is context.value_of(name).
VariableLookup(e, bound) ==
    IF bound = <<>>
    THEN Err(UnknownVariable(e.name), <<>>)
    ELSE Ok(bound[1], <<>>)

\* Variable::evaluate, from the resolved name on.
VariableResolved(e, ctx, name) ==
    IF name.status # "ok" THEN name
    ELSE VariableLookup(e, ValueOf(ctx, name.val))

\* Variable::evaluate
VariableEvaluate(e, ctx) ==
    VariableResolved(e, ctx, resolve_prefixed_name(ctx, e.name))

RECURSIVE EvaluateArguments(_, _, _)

\* The collect of the arguments with each value put behind the later ones:
\* the vector in the opposite order.
ArgumentsCollectedReversed(a, rest) ==
    IF rest.status # "ok" THEN After(a.log, rest)
    ELSE Ok(rest.val \o <<a.val>>, a.log \o rest.log)

\* a, then the rest of the arguments, as one vector.
ArgumentsCollected(a, rest) ==
    IF rest.status # "ok" THEN After(a.log, rest)
    ELSE Ok(<<a.val>> \o rest.val, a.log \o rest.log)

\* The `collect` of Function::evaluate at the i-th argument, evaluated to a:
\* it stops at the first argument that is not Ok.
ArgumentsAfter(arguments, ctx, i, a) ==
    IF a.status # "ok" THEN a
    ELSE ArgumentsCollected(a, EvaluateArguments(arguments, ctx, i + 1))

\* The `collect` of Function::evaluate: the arguments from the i-th on are
\* evaluated in order into a vector.
EvaluateArguments(arguments, ctx, i) ==
    IF i > Len(arguments)
    THEN Ok(<<>>, <<>>)
    ELSE ArgumentsAfter(arguments, ctx, i, Evaluate(arguments[i], ctx))

\* `fun.evaluate(context, args).map_err(Error::FunctionEvaluation)`
FunctionReturned(r, log) ==
    IF r.ok THEN Ok(r.val, log) ELSE Err(FunctionEvaluation(r.err), log)

\* Function::evaluate, the closure of and_then with the arguments evaluated.
FunctionCall(e, ctx, fun, args) ==
    IF args.status # "ok" THEN args
    ELSE FunctionReturned(FunctionApply(fun, ctx, args.val),
                          args.log \o <<Event("call", e.name.local, ctx, <<>>)>>)

\* Function::evaluate, the lookup: fun is context.function_for_name(name).
FunctionLookup(e, ctx, fun) ==
    IF fun = <<>>
    THEN Err(UnknownFunction(e.name), <<>>)
    ELSE FunctionCall(e, ctx, fun[1], EvaluateArguments(e.arguments, ctx, 1))

\* Function::evaluate, from the resolved name on.
FunctionResolved(e, ctx, name) ==
    IF name.status # "ok" THEN name
    ELSE FunctionLookup(e, ctx, FunctionForName(ctx, name.val))

\* Function::evaluate
FunctionEvaluate(e, ctx) ==
    FunctionResolved(e, ctx, resolve_prefixed_name(ctx, e.name))

----------------------------------------------------------------------------
(* The predicate engine, Filter, Step, Path and Union *)

\* `position == v as usize` of Predicate::matches.  The cast truncates
\* towards zero.  A value the cast cannot represent (NaN, an infinity, -1 or
\* below) becomes 0 or a value of at least 2^63, depending on the value and
\* on the compiler: `cast` is which of the two ("zero" or "max").
PositionIsAsUsize(position, v, cast) ==
    IF v.cls = "fin" /\ v.h > -100
    THEN position = (IF v.h >= 0 THEN v.h \div 100 ELSE 0)
    ELSE cast = "zero" /\ position = 0

\* Predicate::matches without the match on Number: every value is coerced to
\* a boolean.
MatchesValueCoerced(c, value) ==
    IF value.status # "ok" THEN value
    ELSE Ok(ValueBoolean(value.val), value.log)

\* Predicate::matches, from the value of the predicate's expression on.
MatchesValue(c, value) ==
    IF value.status # "ok" THEN value
    ELSE Ok(IF value.val.kind = "Number"
            THEN PositionIsAsUsize(c.position, value.val.num, c.cast)
            ELSE ValueBoolean(value.val),
            value.log)

\* Predicate::matches, in the per-node context c.
PredicateMatches(predicate, c) ==
    MatchesValue(c, After(<<Event("matches", "", c, <<>>)>>,
                          Evaluate(predicate.expression, c)))

RECURSIVE SelectFrom(_, _, _)

\* What the collect of Predicate::select holds of the node of c, which
\* matched as m: filter_map yields the node, or nothing.
KeptNodes(c, m) == IF m.val THEN <<c.node>> ELSE <<>>

KeepEvents(c, m) == IF m.val THEN <<Event("keep", "", c, <<>>)>> ELSE <<>>

\* The node of c if it matched (m), then the nodes selected after it; an
\* error after it discards what was collected.
SelectCollected(c, m, rest) ==
    After(m.log \o KeepEvents(c, m),
          IF rest.status # "ok" THEN rest
          ELSE [rest EXCEPT !.val = KeptNodes(c, m) \o @])

\* The filter_map of Predicate::select with `Err(_) => None`: a node whose
\* predicate fails is left out and the selection goes on.
SelectAfterSkipping(predicate, contexts, i, m) ==
    IF m.status # "ok"
    THEN After(m.log, SelectFrom(predicate, contexts, i + 1))
    ELSE SelectCollected(contexts[i], m, SelectFrom(predicate, contexts, i + 1))

\* The filter_map and collect of Predicate::select at the i-th context, whose
\* node matches as m: an error ends the selection.
SelectAfter(predicate, contexts, i, m) ==
    IF m.status # "ok" THEN m
    ELSE SelectCollected(contexts[i], m, SelectFrom(predicate, contexts, i + 1))

\* The filter_map and collect of Predicate::select, from the i-th context on.
SelectFrom(predicate, contexts, i) ==
    IF i > Len(contexts)
    THEN Ok(<<>>, <<>>)
    ELSE SelectAfter(predicate, contexts, i,
                     PredicateMatches(predicate, contexts[i]))

\* Predicate::select with new_context_for in place of new_contexts_for: every
\* node is alone in its context, at position 1 of 1.
PredicateSelectEachAlone(predicate, ctx, nodes) ==
    After(<<Event("select", "", ctx, nodes)>>,
          SelectFrom(predicate,
                     [i \in 1 .. Len(nodes) |-> NewContextFor(ctx, nodes[i])],
                     1))

\* Predicate::select
PredicateSelect(predicate, ctx, nodes) ==
    After(<<Event("select", "", ctx, nodes)>>,
          SelectFrom(predicate, NewContextsFor(ctx, nodes), 1))

\* `.map(|nodes| Value::Nodeset(nodes.into()))` of Filter::evaluate
FilterKept(log, kept) ==
    IF kept.status # "ok" THEN After(log, kept)
    ELSE Ok(NodesetValue(IntoNodeset(kept.val)), log \o kept.log)

\* Filter::evaluate, from the ordered nodes of the node selector on.
FilterSelected(e, ctx, nodes) ==
    IF nodes.status # "ok" THEN nodes
    ELSE FilterKept(nodes.log, PredicateSelect(e.predicate, ctx, nodes.val))

\* Filter::evaluate
FilterEvaluate(e, ctx) ==
    FilterSelected(e, ctx,
                   value_into_ordered_nodes(Evaluate(e.node_selector, ctx)))

\* NodeTest::test of the node tests a step may hold: node() accepts every
\* node, a name test the nodes of that name.
NodeTestAccepts(node_test, doc, n) ==
    \/ node_test.kind = "node"
    \/ node_test.kind = "name" /\ doc.name[n] = node_test.name

\* The nodes an axis reaches from node n, in the axis's order: self, child
\* and parent in the document whose root has every other node as a child.
AxisNodes(axis, n) ==
    CASE axis = "self" -> <<n>>
      [] axis = "child" ->
            IF n = RootOfDocument
            THEN DocumentOrder(Nodes \ {RootOfDocument})
            ELSE <<>>
      [] axis = "parent" ->
            IF n = RootOfDocument THEN <<>> ELSE <<RootOfDocument>>

\* AxisLike::select_nodes: what the axis appends to the result, from the
\* context node of c.
AxisSelectNodes(axis, node_test, c) ==
    SelectSeq(AxisNodes(axis, c.node),
              LAMBDA n : NodeTestAccepts(node_test, c.doc, n))

\* One turn of the loop of apply_axis: the axis appends to the result in the
\* context of one starting node; rest is what the later turns append.
AxisAppended(step, child_context, rest) ==
    Ok(AxisSelectNodes(step.axis, step.node_test, child_context) \o rest.val,
       <<Event("select_nodes", step.axis, child_context, <<>>)>> \o rest.log)

\* The loop of ParameterizedStep::apply_axis over the starting nodes, from the
\* i-th on; val is what the axis invocations append, in order.
RECURSIVE ApplyAxisFrom(_, _, _, _)
ApplyAxisFrom(step, ctx, starting, i) ==
    IF i > Len(starting)
    THEN Ok(<<>>, <<>>)
    ELSE AxisAppended(step, NewContextFor(ctx, starting[i]),
                      ApplyAxisFrom(step, ctx, starting, i + 1))

\* ParameterizedStep::apply_axis with a loop that is left after its first
\* turn.
ApplyAxisOnce(step, ctx, starting_nodes) ==
    ApplyAxisFrom(step, ctx,
                  IF starting_nodes = {} THEN <<>>
                  ELSE <<FirstIterated(starting_nodes, ctx.hash)>>, 1)

\* ParameterizedStep::apply_axis
ApplyAxis(step, ctx, starting_nodes) ==
    ApplyAxisFrom(step, ctx, IterationOrder(starting_nodes, ctx.hash), 1)

RECURSIVE ApplyPredicatesFrom(_, _, _, _)

\* One turn of the loop of apply_predicates: `nodes = try!(predicate.select(
\* context, nodes))`, with the selection's result kept.
PredicatesAfter(step, ctx, i, kept) ==
    IF kept.status # "ok" THEN kept
    ELSE After(kept.log, ApplyPredicatesFrom(step, ctx, kept.val, i + 1))

\* The loop of ParameterizedStep::apply_predicates, from the i-th predicate
\* on, over the nodes that are left.
ApplyPredicatesFrom(step, ctx, nodes, i) ==
    IF i > Len(step.predicates)
    THEN Ok(IntoNodeset(nodes), <<>>)
    ELSE PredicatesAfter(step, ctx, i,
                         PredicateSelect(step.predicates[i], ctx, nodes))

\* ParameterizedStep::apply_predicates
ApplyPredicates(step, ctx, nodes) == ApplyPredicatesFrom(step, ctx, nodes, 1)

\* ParameterizedStep::evaluate, from the axis's output on.
StepAfterAxis(step, ctx, axis) ==
    After(axis.log, ApplyPredicates(step, ctx, axis.val))

\* ParameterizedStep::evaluate
StepEvaluate(step, ctx, starting_nodes) ==
    After(<<Event("step", step.axis, ctx, <<>>)>>,
          StepAfterAxis(step, ctx, ApplyAxis(step, ctx, starting_nodes)))

RECURSIVE PathStepsFrom(_, _, _, _)

\* One turn of the loop of Path::evaluate: `result = try!(step.evaluate(
\* context, result))`, with the step's result r.
PathAfterStep(steps, ctx, i, r) ==
    IF r.status # "ok" THEN r
    ELSE After(r.log, PathStepsFrom(steps, ctx, r.val, i + 1))

\* The loop of Path::evaluate running over the steps from the last to the
\* first.
PathStepsFromLast(steps, ctx, result, i) ==
    IF i > Len(steps)
    THEN Ok(NodesetValue(result), <<>>)
    ELSE PathAfterStep(steps, ctx, i,
                       StepEvaluate(steps[Len(steps) + 1 - i], ctx, result))

\* The loop of Path::evaluate over the steps, from the i-th on.
PathStepsFrom(steps, ctx, result, i) ==
    IF i > Len(steps)
    THEN Ok(NodesetValue(result), <<>>)
    ELSE PathAfterStep(steps, ctx, i, StepEvaluate(steps[i], ctx, result))

\* Path::evaluate, from the start point's nodeset on.
PathStarted(e, ctx, result) ==
    IF result.status # "ok" THEN result
    ELSE After(result.log, PathStepsFrom(e.steps, ctx, result.val, 1))

\* Path::evaluate
PathEvaluate(e, ctx) ==
    PathStarted(e, ctx, value_into_nodeset(Evaluate(e.start_point, ctx)))

\* Nodeset::add_nodeset
AddNodeset(nodes, other) == nodes \cup other

\* Union::evaluate without the add_nodeset of line 508: the left nodeset is
\* the result.
UnionOfLeftNodes(ctx, left_nodes, right_nodes) ==
    Ok(NodesetValue(left_nodes.val), left_nodes.log \o right_nodes.log)

\* Union::evaluate, lines 508-509: both operands are nodesets.
UnionOfNodes(ctx, left_nodes, right_nodes) ==
    Ok(NodesetValue(AddNodeset(left_nodes.val, right_nodes.val)),
       left_nodes.log \o right_nodes.log
            \o <<Event("add_nodeset", "", ctx, <<>>)>>)

\* Union::evaluate, from the right operand's nodeset on.
UnionRight(ctx, left_nodes, right_nodes) ==
    IF right_nodes.status # "ok" THEN After(left_nodes.log, right_nodes)
    ELSE UnionOfNodes(ctx, left_nodes, right_nodes)

\* Union::evaluate, from the left operand's nodeset on.
UnionLeft(e, ctx, left_nodes) ==
    IF left_nodes.status # "ok" THEN left_nodes
    ELSE UnionRight(ctx, left_nodes,
                    value_into_nodeset(Evaluate(e.right, ctx)))

\* Union::evaluate
UnionEvaluate(e, ctx) ==
    UnionLeft(e, ctx, value_into_nodeset(Evaluate(e.left, ctx)))

\* Expression::evaluate: the dynamic dispatch on the variant.  Each call is
\* logged with the variant and the context it ran in.
Evaluate(e, ctx) ==
    After(<<Event("evaluate", e.kind, ctx, <<>>)>>,
          CASE e.kind = "And" -> AndEvaluate(e, ctx)
            [] e.kind = "Or" -> OrEvaluate(e, ctx)
            [] e.kind = "ContextNode" -> ContextNodeEvaluate(e, ctx)
            [] e.kind = "RootNode" -> RootNodeEvaluate(e, ctx)
            [] e.kind = "Literal" -> LiteralEvaluate(e, ctx)
            [] e.kind = "Equal" -> EqualEvaluate(e, ctx)
            [] e.kind = "NotEqual" -> NotEqualEvaluate(e, ctx)
            [] e.kind = "Function" -> FunctionEvaluate(e, ctx)
            [] e.kind = "Math" -> MathEvaluate(e, ctx)
            [] e.kind = "Negation" -> NegationEvaluate(e, ctx)
            [] e.kind = "Relational" -> RelationalEvaluate(e, ctx)
            [] e.kind = "Path" -> PathEvaluate(e, ctx)
            [] e.kind = "Filter" -> FilterEvaluate(e, ctx)
            [] e.kind = "Union" -> UnionEvaluate(e, ctx)
            [] e.kind = "Variable" -> VariableEvaluate(e, ctx)
            [] e.kind = "FailExpression" -> FailExpressionEvaluate(e, ctx))

----------------------------------------------------------------------------
(* Constructors of the expression tree *)

Name(prefix, local) == [prefix |-> prefix, local |-> local]

\* An unprefixed name, as `"left".into()`.
Unprefixed(local) == Name(<<>>, local)

And(left, right) == [kind |-> "And", left |-> left, right |-> right]

Or(left, right) == [kind |-> "Or", left |-> left, right |-> right]

Equal(left, right) == [kind |-> "Equal", left |-> left, right |-> right]

NotEqual(left, right) == [kind |-> "NotEqual", equal |-> Equal(left, right)]

Union(left, right) == [kind |-> "Union", left |-> left, right |-> right]

Math(operation, left, right) ==
    [kind |-> "Math", operation |-> operation, left |-> left, right |-> right]

Relational(operation, left, right) ==
    [kind |-> "Relational", operation |-> operation, left |-> left,
     right |-> right]

Negation(expression) == [kind |-> "Negation", expression |-> expression]

Literal(value) == [kind |-> "Literal", value |-> value]

Variable(name) == [kind |-> "Variable", name |-> name]

Function(name, arguments) ==
    [kind |-> "Function", name |-> name, arguments |-> arguments]

ContextNode == [kind |-> "ContextNode"]

RootNode == [kind |-> "RootNode"]

FailExpression == [kind |-> "FailExpression"]

Predicate(expression) == [expression |-> expression]

Filter(node_selector, predicate) ==
    [kind |-> "Filter", node_selector |-> node_selector,
     predicate |-> Predicate(predicate)]

\* ParameterizedStep::new
Step(axis, node_test, predicates) ==
    [axis |-> axis, node_test |-> node_test,
     predicates |-> [i \in 1 .. Len(predicates) |-> Predicate(predicates[i])]]

Path(start_point, steps) ==
    [kind |-> "Path", start_point |-> start_point, steps |-> steps]

----------------------------------------------------------------------------
(* The inputs of the model: documents, contexts and expressions *)

TextOne == <<"1">>

TextB == <<"b">>

Hello == <<"h", "e", "l", "l", "o">>

World == <<"W", "o", "r", "l", "d">>

MinusFortyTwo == <<"-", "4", "2", ".", "0">>

PaddedOne == <<" ", "1", " ">>

NodeTexts == {TextOne, TextB}

\* The element names of the document: the root is "r", its children are
\* alternately "a" and "b".
NodeNames ==
    [n \in Nodes |->
        IF n = RootOfDocument THEN "r" ELSE IF n % 2 = 0 THEN "a" ELSE "b"]

\* Every assignment of a string-value to the nodes.
Docs == {[text |-> t, name |-> NodeNames] : t \in [Nodes -> NodeTexts]}

\* The document whose root has string-value "1" and whose other nodes "b".
PlainDoc ==
    [text |-> [n \in Nodes |-> IF n = RootOfDocument THEN TextOne ELSE TextB],
     name |-> NodeNames]

\* Three iteration orders of a HashSet of nodes: by ascending handle, by
\* descending handle, and rotated by one.
HashOrders ==
    {[n \in Nodes |-> n],
     [n \in Nodes |-> NumNodes + 1 - n],
     [n \in Nodes |-> IF n = RootOfDocument THEN NumNodes + 1 ELSE n]}

Casts == {"zero", "max"}

\* The functions the contexts of the model bind.
CoreFunctions ==
    (QName(<<>>, "position") :> [kind |-> "position", value |-> NoValue, error |-> ""])
    @@ (QName(<<>>, "last") :> [kind |-> "last", value |-> NoValue, error |-> ""])
    @@ (QName(<<>>, "test-fn") :>
            [kind |-> "stub", value |-> StringValue(Hello), error |-> ""])
    @@ (QName(<<>>, "first-is-true") :>
            [kind |-> "by-position", value |-> BooleanValue(TRUE), error |-> ""])
    @@ (QName(<<>>, "broken") :>
            [kind |-> "fails", value |-> NoValue, error |-> "Other"])

\* The variables `left` and `right`, bound to two nodesets.
NodesetVariables(left, right) ==
    (QName(<<>>, "left") :> NodesetValue(left))
    @@ (QName(<<>>, "right") :> NodesetValue(right))

\* context::Evaluation::new on a context with the given bindings: the context
\* node, at position 1 of 1.
MakeContext(node, doc, variables, functions, namespaces, hash, cast) ==
    [node |-> node, position |-> 1, size |-> 1, variables |-> variables,
     functions |-> functions, namespaces |-> namespaces, doc |-> doc,
     hash |-> hash, cast |-> cast]

NoNamespaces == [p \in {} |-> ""]

DefaultHash == [n \in Nodes |-> n]

\* The context of most evaluations: the root as context node, `left` and
\* `right` bound, the core functions, no namespace.
StandardContext(doc, left, right, hash, cast) ==
    MakeContext(RootOfDocument, doc, NodesetVariables(left, right),
                CoreFunctions, NoNamespaces, hash, cast)

LiteralValues ==
    {BooleanValue(TRUE), BooleanValue(FALSE),
     NumberValue(Num(1)), NumberValue(Num(0 - 42)), NumberValue(NaN),
     StringValue(TextOne), StringValue(PaddedOne), StringValue(MinusFortyTwo),
     StringValue(Hello), StringValue(World), StringValue(<<>>)}

Literals == {Literal(v) : v \in LiteralValues}

\* Operands that do not evaluate to a value: an unbound variable, a name with
\* an unbound prefix, and the expression that panics.
FailingOperands ==
    {Variable(Unprefixed("missing")), Variable(Name(<<"q">>, "left")),
     FailExpression}

\* The context of And and Or: `left` is the empty nodeset, `right` is not.
LogicContext == StandardContext(PlainDoc, {}, Nodes, DefaultHash, "zero")

LogicOperands ==
    Literals \cup FailingOperands
        \cup {Variable(Unprefixed("left")), Variable(Unprefixed("right"))}

LogicRightOperands ==
    LogicOperands \cup {And(Literal(BooleanValue(TRUE)), FailExpression)}

\* A call of an unprefixed function without arguments.
Call(local) == Function(Unprefixed(local), <<>>)

\* The variables `left` and `right` of the contexts.
LeftVariable == Variable(Unprefixed("left"))

RightVariable == Variable(Unprefixed("right"))

\* A predicate that is true for the first node and fails for the others:
\* position() < 2 or broken().
FailsAfterFirst ==
    Or(Relational("less_than", Call("position"),
                  Literal(NumberValue(Num(2)))),
       Call("broken"))

\* The predicates of the model's filters: literals of every kind, numbers
\* that are a position, beyond the positions, negative, fractional or not
\* finite, functions of the context position and size, a function whose value
\* is a boolean for the first node and a number for the others, a test of
\* the context node, and predicates that fail, one of them for a union of
\* a boolean.
FilterPredicates ==
    {Literal(BooleanValue(TRUE)), Literal(BooleanValue(FALSE)),
     Literal(StringValue(<<>>)), Literal(StringValue(Hello)),
     Literal(NumberValue(Num(0 - 1))), Literal(NumberValue(Fin(150))),
     Literal(NumberValue(NaN)), Literal(NumberValue(Infinity)),
     Call("position"), Call("last"), Call("first-is-true"), Call("broken"),
     Variable(Unprefixed("missing")), FailsAfterFirst,
     Union(Literal(BooleanValue(TRUE)), ContextNode),
     Equal(ContextNode, Literal(StringValue(TextB))),
     Relational("less_than", Call("position"), Literal(NumberValue(Num(2))))}
    \cup {Literal(NumberValue(Num(k))) : k \in 0 .. NumNodes + 1}

\* Operands that evaluate to a value that is not a nodeset.
NonNodesets ==
    {Literal(StringValue(Hello)), Literal(NumberValue(Num(1))),
     Literal(BooleanValue(TRUE))}

AnyNode == [kind |-> "node", name |-> ""]

NameTest(name) == [kind |-> "name", name |-> name]

Axes == {"self", "child", "parent"}

StepPredicates ==
    {Literal(NumberValue(Num(1))), Literal(NumberValue(Num(2))),
     Literal(BooleanValue(TRUE)), Call("last"), Call("broken"),
     FailsAfterFirst}

\* The predicate lists of a step: none, one, or two predicates.
PredicateLists ==
    {<<>>} \cup {<<p>> : p \in StepPredicates}
           \cup {<<p, q>> : p \in StepPredicates, q \in StepPredicates}

Steps ==
    {Step(a, AnyNode, ps) : a \in Axes, ps \in PredicateLists}
    \cup {Step(a, NameTest("a"), <<>>) : a \in Axes}

\* The step lists of a path: none, one step, a step without predicates
\* followed by any step, or a step with a predicate followed by a step.
StepLists ==
    {<<>>} \cup {<<s>> : s \in Steps}
           \cup {<<Step(a, AnyNode, <<>>), s>> : a \in Axes, s \in Steps}
           \cup {<<Step(a, AnyNode, <<p>>), Step("self", AnyNode, <<>>)>> :
                        a \in Axes, p \in StepPredicates}

\* The operands of a union besides the variables `left` and `right`.
UnionOperands == NonNodesets \cup FailingOperands \cup {ContextNode}

\* The names of the model's variable and function references: without a
\* prefix and with the prefixes `p` and `q`.
Names == {Name(p, l) : p \in {<<>>, <<"p">>, <<"q">>}, l \in {"f", "g"}}

\* The namespace bindings of a context: none, `p`, or `p` and `q`.
NamespaceMaps ==
    {NoNamespaces, "p" :> "u", ("p" :> "u") @@ ("q" :> "v")}

\* The qualified names a context may bind.
BoundNames == {QName(<<>>, "f"), QName(<<"u">>, "f")}

VariableTables ==
    UNION {[k -> {BooleanValue(TRUE), StringValue(Hello)}] :
                k \in SUBSET BoundNames}

NoVariables == [q \in {} |-> NoValue]

\* The functions a context may bind to a name: one that returns a string,
\* one that fails, and two that return their first and their second
\* argument.
BoundFunctions ==
    {[kind |-> "stub", value |-> StringValue(Hello), error |-> ""],
     [kind |-> "fails", value |-> NoValue, error |-> "Other"],
     [kind |-> "argument", value |-> NumberValue(Num(1)), error |-> ""],
     [kind |-> "argument", value |-> NumberValue(Num(2)), error |-> ""]}

FunctionTables == UNION {[k -> BoundFunctions] : k \in SUBSET BoundNames}

\* The argument lists of the model's function calls.
ArgumentLists ==
    {<<>>, <<Literal(BooleanValue(TRUE))>>, <<FailExpression>>,
     <<Literal(BooleanValue(FALSE)), Literal(StringValue(Hello))>>,
     <<Literal(NumberValue(Num(1))), Literal(BooleanValue(TRUE)),
       Literal(StringValue(Hello))>>,
     <<Literal(BooleanValue(TRUE)), Variable(Unprefixed("missing")),
       FailExpression>>}

\* The operands of the arithmetic, relational and negation expressions: a
\* number, strings that are and are not numbers, a boolean, a nodeset, a
\* union of a non-nodeset, and operands that fail.
ArithmeticOperands ==
    {Literal(NumberValue(Num(1))), Literal(NumberValue(NaN)),
     Literal(StringValue(PaddedOne)), Literal(StringValue(Hello)),
     Literal(BooleanValue(TRUE)), Variable(Unprefixed("right")),
     Union(Literal(BooleanValue(TRUE)), RootNode), FailExpression}

\* The remaining expressions: the leaves, and every arithmetic, relational
\* and negation expression over ArithmeticOperands.
OtherExpressions ==
    Literals \cup {ContextNode, RootNode}
    \cup {Negation(x) : x \in ArithmeticOperands}
    \cup {Math(op, x, y) : op \in {"add", "subtract"},
                x \in ArithmeticOperands, y \in ArithmeticOperands}
    \cup {Relational(op, x, y) :
                op \in {"less_than", "less_than_or_equal", "greater_than",
                        "greater_than_or_equal"},
                x \in ArithmeticOperands, y \in ArithmeticOperands}

----------------------------------------------------------------------------
(* The state machine: one evaluation of an expression in a context *)

NotEvaluated == [kind |-> "None"]

Init ==
    /\ expr = NotEvaluated
    /\ context = LogicContext
    /\ outcome = Ok(NoValue, <<>>)

\* Every action below is expression.evaluate(&context) for one variant of
\* expression.  Evaluation takes &self and a shared context and changes
\* neither, so no evaluation depends on an earlier one: a behaviour of the
\* model is one evaluation.

EvaluateAnd ==
    /\ expr = NotEvaluated
    /\ \E l \in LogicOperands, r \in LogicRightOperands :
        /\ expr' = And(l, r)
        /\ context' = LogicContext
        /\ outcome' = Evaluate(And(l, r), LogicContext)

EvaluateOr ==
    /\ expr = NotEvaluated
    /\ \E l \in LogicOperands, r \in LogicRightOperands :
        /\ expr' = Or(l, r)
        /\ context' = LogicContext
        /\ outcome' = Evaluate(Or(l, r), LogicContext)

\* Equal over two nodesets and over a nodeset and a literal, in both
\* orders, in every document; and over two operands that are literals or
\* fail.
EvaluateEqual ==
    /\ expr = NotEvaluated
    /\ \/ \E d \in Docs, l \in SUBSET Nodes, r \in SUBSET Nodes :
            /\ expr' = Equal(LeftVariable, RightVariable)
            /\ context' = StandardContext(d, l, r, DefaultHash, "zero")
            /\ outcome' = Evaluate(expr', context')
       \/ \E d \in Docs, l \in SUBSET Nodes, lit \in Literals :
            /\ expr' \in {Equal(LeftVariable, lit), Equal(lit, LeftVariable)}
            /\ context' = StandardContext(d, l, {}, DefaultHash, "zero")
            /\ outcome' = Evaluate(expr', context')
       \/ \E a \in Literals \cup FailingOperands,
             b \in Literals \cup FailingOperands :
            /\ expr' = Equal(a, b)
            /\ context' = LogicContext
            /\ outcome' = Evaluate(expr', context')

\* NotEqual over the operands and contexts of Equal.
EvaluateNotEqual ==
    /\ expr = NotEvaluated
    /\ \/ \E d \in Docs, l \in SUBSET Nodes, r \in SUBSET Nodes :
            /\ expr' = NotEqual(LeftVariable, RightVariable)
            /\ context' = StandardContext(d, l, r, DefaultHash, "zero")
            /\ outcome' = Evaluate(expr', context')
       \/ \E d \in Docs, l \in SUBSET Nodes, lit \in Literals :
            /\ expr' \in {NotEqual(LeftVariable, lit),
                          NotEqual(lit, LeftVariable)}
            /\ context' = StandardContext(d, l, {}, DefaultHash, "zero")
            /\ outcome' = Evaluate(expr', context')
       \/ \E a \in Literals \cup FailingOperands,
             b \in Literals \cup FailingOperands :
            /\ expr' = NotEqual(a, b)
            /\ context' = LogicContext
            /\ outcome' = Evaluate(expr', context')

\* A filter of every nodeset, in every iteration order, by every predicate;
\* and a filter whose node selector is no nodeset or fails.
EvaluateFilter ==
    /\ expr = NotEvaluated
    /\ \/ \E p \in FilterPredicates, l \in SUBSET Nodes, h \in HashOrders,
             c \in Casts :
            /\ expr' = Filter(LeftVariable, p)
            /\ context' = StandardContext(PlainDoc, l, {}, h, c)
            /\ outcome' = Evaluate(expr', context')
       \/ \E x \in NonNodesets \cup FailingOperands,
             p \in {Literal(BooleanValue(TRUE)), Call("broken")} :
            /\ expr' = Filter(x, p)
            /\ context' = LogicContext
            /\ outcome' = Evaluate(expr', context')

\* A path from every nodeset in every iteration order; and from the context
\* node, the root, and start points that are no nodeset or fail.
EvaluatePath ==
    /\ expr = NotEvaluated
    /\ \/ \E ss \in StepLists, l \in SUBSET Nodes, h \in HashOrders :
            /\ expr' = Path(LeftVariable, ss)
            /\ context' = StandardContext(PlainDoc, l, {}, h, "zero")
            /\ outcome' = Evaluate(expr', context')
       \/ \E ss \in StepLists,
             x \in {ContextNode, RootNode, Literal(StringValue(Hello)),
                    Variable(Unprefixed("missing"))} :
            /\ expr' = Path(x, ss)
            /\ context' = LogicContext
            /\ outcome' = Evaluate(expr', context')

\* A union of the variables `left` and `right`, bound to every two
\* nodesets; of a nodeset and another operand, in both orders; and of two
\* other operands.
EvaluateUnion ==
    /\ expr = NotEvaluated
    /\ \/ \E a \in {LeftVariable, RightVariable},
             b \in {LeftVariable, RightVariable},
             l \in SUBSET Nodes, r \in SUBSET Nodes :
            /\ expr' = Union(a, b)
            /\ context' = StandardContext(PlainDoc, l, r, DefaultHash, "zero")
            /\ outcome' = Evaluate(expr', context')
       \/ \E x \in UnionOperands, l \in SUBSET Nodes :
            /\ expr' \in {Union(LeftVariable, x), Union(x, LeftVariable)}
            /\ context' = StandardContext(PlainDoc, l, {}, DefaultHash, "zero")
            /\ outcome' = Evaluate(expr', context')
       \/ \E x \in UnionOperands, y \in UnionOperands :
            /\ expr' = Union(x, y)
            /\ context' = LogicContext
            /\ outcome' = Evaluate(expr', context')

\* A variable of every name, under every namespace and variable binding.
EvaluateVariable ==
    /\ expr = NotEvaluated
    /\ \E n \in Names, ns \in NamespaceMaps, vs \in VariableTables :
        /\ expr' = Variable(n)
        /\ context' = MakeContext(RootOfDocument, PlainDoc, vs, CoreFunctions,
                                  ns, DefaultHash, "zero")
        /\ outcome' = Evaluate(expr', context')

\* A function call of every name and argument list, under every namespace
\* and function binding.
EvaluateFunction ==
    /\ expr = NotEvaluated
    /\ \E n \in Names, as \in ArgumentLists, ns \in NamespaceMaps,
          fs \in FunctionTables :
        /\ expr' = Function(n, as)
        /\ context' = MakeContext(RootOfDocument, PlainDoc, NoVariables, fs,
                                  ns, DefaultHash, "zero")
        /\ outcome' = Evaluate(expr', context')

\* The leaves and the arithmetic, relational and negation expressions.
EvaluateOther ==
    /\ expr = NotEvaluated
    /\ \E e \in OtherExpressions :
        /\ expr' = e
        /\ context' = LogicContext
        /\ outcome' = Evaluate(e, LogicContext)

Next ==
    \/ EvaluateAnd
    \/ EvaluateOr
    \/ EvaluateEqual
    \/ EvaluateNotEqual
    \/ EvaluateFilter
    \/ EvaluatePath
    \/ EvaluateUnion
    \/ EvaluateVariable
    \/ EvaluateFunction
    \/ EvaluateOther

Spec == Init /\ [][Next]_vars

----------------------------------------------------------------------------
(* Properties *)

\* The event Evaluate logs for the evaluation of e in ctx itself.
OwnEvent(e, ctx) == <<Event("evaluate", e.kind, ctx, <<>>)>>

\* out is Ok(Boolean(b)) and nothing was evaluated but e itself and the
\* operand whose result is l.
ShortCircuited(e, ctx, out, l, b) ==
    out = Ok(BooleanValue(b), OwnEvent(e, ctx) \o l.log)

AndShortCircuits(e, ctx, out, l) ==
    (l.status = "ok" /\ ~ValueBoolean(l.val))
        => ShortCircuited(e, ctx, out, l, FALSE)

OrShortCircuits(e, ctx, out, l) ==
    (l.status = "ok" /\ ValueBoolean(l.val))
        => ShortCircuited(e, ctx, out, l, TRUE)

\* C1: And with a left operand whose boolean coercion is false returns
\* Boolean(false), and Or with a left operand whose boolean coercion is true
\* returns Boolean(true), whatever the right operand (one that would fail or
\* panic included); the right operand is not evaluated: the events of the
\* evaluation are those of the left operand and no others.
C1_ShortCircuit ==
    /\ expr.kind = "And" =>
        AndShortCircuits(expr, context, outcome, Evaluate(expr.left, context))
    /\ expr.kind = "Or" =>
        OrShortCircuits(expr, context, outcome, Evaluate(expr.left, context))

\* And(Literal(Boolean false), FailExpression) has been evaluated.
C1_Witness ==
    /\ expr = And(Literal(BooleanValue(FALSE)), FailExpression)
    /\ outcome.status = "ok"

\* No nodeset rule of Equal applies to the two values: neither is a nodeset,
\* or the other one is a boolean.
NoNodesetRule(a, b) ==
    \/ a.kind # "Nodeset" /\ b.kind # "Nodeset"
    \/ a.kind = "Boolean"
    \/ b.kind = "Boolean"

\* What the dispatch priority of Equal gives for two values no nodeset rule
\* applies to.
ByPriority(a, b, doc) ==
    IF a.kind = "Boolean" \/ b.kind = "Boolean"
    THEN ValueBoolean(a) = ValueBoolean(b)
    ELSE IF a.kind = "Number" \/ b.kind = "Number"
    THEN F64Eq(ValueNumber(a, doc), ValueNumber(b, doc))
    ELSE a.str = b.str

EqualFollowsPriority(out, doc, l, r) ==
    (l.status = "ok" /\ r.status = "ok" /\ NoNodesetRule(l.val, r.val))
        => (out.status = "ok"
            /\ out.val = BooleanValue(ByPriority(l.val, r.val, doc)))

\* C2: when no nodeset-vs-nodeset, -number or -string rule applies, Equal
\* compares as booleans if either operand is a Boolean (Nodeset vs Boolean
\* included), otherwise as numbers if either is a Number, otherwise as
\* strings; so false = "hello" is false, "-42.0" = -42.0 is true and
\* "hello" = "World" is false.
C2_EqualDispatchPriority ==
    /\ expr.kind = "Equal" =>
        EqualFollowsPriority(outcome, context.doc,
                             Evaluate(expr.left, context),
                             Evaluate(expr.right, context))
    /\ expr = Equal(Literal(BooleanValue(FALSE)), Literal(StringValue(Hello)))
        => outcome.val = BooleanValue(FALSE)
    /\ expr = Equal(Literal(StringValue(MinusFortyTwo)),
                    Literal(NumberValue(Num(0 - 42))))
        => outcome.val = BooleanValue(TRUE)
    /\ expr = Equal(Literal(StringValue(Hello)), Literal(StringValue(World)))
        => outcome.val = BooleanValue(FALSE)

\* Equal(true, -42) has been evaluated: equal as booleans, unequal as numbers.
C2_Witness ==
    /\ expr = Equal(Literal(BooleanValue(TRUE)), Literal(NumberValue(Num(0 - 42))))
    /\ outcome.status = "ok"
    /\ outcome.val = BooleanValue(TRUE)

\* Whether some node of a nodeset value and the other value are equal, by
\* the string-values of the nodes.
SomeNodeEquals(a, b, doc) ==
    CASE b.kind = "Nodeset" ->
            \E m \in a.nodes, n \in b.nodes :
                NodeStringValue(doc, m) = NodeStringValue(doc, n)
      [] b.kind = "String" ->
            \E m \in a.nodes : NodeStringValue(doc, m) = b.str
      [] b.kind = "Number" ->
            \E m \in a.nodes :
                F64Eq(StringToNumber(NodeStringValue(doc, m)), b.num)

EqualIsExistential(out, doc, l, r) ==
    /\ (l.status = "ok" /\ r.status = "ok" /\ l.val.kind = "Nodeset"
            /\ r.val.kind # "Boolean")
        => out = Ok(BooleanValue(SomeNodeEquals(l.val, r.val, doc)), out.log)
    /\ (l.status = "ok" /\ r.status = "ok" /\ r.val.kind = "Nodeset"
            /\ l.val.kind # "Boolean")
        => out = Ok(BooleanValue(SomeNodeEquals(r.val, l.val, doc)), out.log)

\* C3: Equal with a nodeset operand, in either order: with two nodesets it is
\* true iff a node of each have equal string-values (false if either is
\* empty); with a String, iff some node's string-value is the string; with a
\* Number, iff some node's string-value as a number equals it (NaN equals
\* nothing).
C3_EqualNodesetExistential ==
    expr.kind = "Equal" =>
        EqualIsExistential(outcome, context.doc,
                           Evaluate(expr.left, context),
                           Evaluate(expr.right, context))

\* Two nodesets were compared equal although their first nodes differ in
\* string-value.
C3_Witness ==
    /\ expr = Equal(Variable(Unprefixed("left")), Variable(Unprefixed("right")))
    /\ outcome = Ok(BooleanValue(TRUE), outcome.log)
    /\ ValueString(Evaluate(expr.left, context).val, context.doc)
        # ValueString(Evaluate(expr.right, context).val, context.doc)

NotEqualNegates(out, eq) ==
    /\ eq.status = "ok"
        => (out.status = "ok" /\ out.val = BooleanValue(~eq.val.bool))
    /\ eq.status # "ok"
        => (out.status = eq.status /\ out.err = eq.err)

\* C4: where Equal(a, b) gives Boolean(v), NotEqual(a, b) gives
\* Boolean(not v), in the same context; where Equal(a, b) fails, NotEqual(a, b)
\* fails with the same error.
C4_NotEqualNegatesEqual ==
    expr.kind = "NotEqual" =>
        NotEqualNegates(outcome, Evaluate(expr.equal, context))

\* NotEqual of two nodesets with a string-value in common has been evaluated.
C4_Witness ==
    /\ expr.kind = "NotEqual"
    /\ expr.equal.left = Variable(Unprefixed("left"))
    /\ expr.equal.right = Variable(Unprefixed("right"))
    /\ outcome = Ok(BooleanValue(FALSE), outcome.log)

----------------------------------------------------------------------------
(* Predicate selection (C5) *)

\* The sequence a filter's predicate selected from: the nodes of the
\* `select` event of the evaluation's log.
SelectedFrom(log) == log[CHOOSE i \in DOMAIN log : log[i].op = "select"].nodes

IsInteger(n) == n.cls = "fin" /\ n.h % 100 = 0

\* The rule for the node at position i whose predicate has the value v: a
\* Number of integer value k keeps it iff i = k, a value of another kind
\* iff it is true as a boolean.
KeptByKind(v, i, kept) ==
    IF v.kind = "Number"
    THEN IsInteger(v.num) => (kept <=> (i = v.num.h \div 100))
    ELSE kept <=> ValueBoolean(v)

NodeKeptByKind(value, i, kept) ==
    value.status = "ok" /\ KeptByKind(value.val, i, kept)

\* Every node of the selection is kept or dropped by the kind of the value
\* the predicate has in the node's own context.
SelectionByKind(predicate, contexts, result) ==
    \A i \in DOMAIN contexts :
        NodeKeptByKind(Evaluate(predicate.expression, contexts[i]), i,
                       contexts[i].node \in result)

\* The three constant predicates over the N nodes selected from.
ConstantPredicates(p, nodes, result) ==
    /\ p = Literal(BooleanValue(FALSE)) => result = {}
    /\ p = Literal(BooleanValue(TRUE)) => result = IntoNodeset(nodes)
    /\ \A k \in 1 .. Len(nodes) :
            p = Literal(NumberValue(Num(k))) => Cardinality(result) = 1

FilterSelectsByKind(e, ctx, out, nodes) ==
    /\ out.val.kind = "Nodeset"
    /\ out.val.nodes \subseteq IntoNodeset(nodes)
    /\ SelectionByKind(e.predicate, NewContextsFor(ctx, nodes), out.val.nodes)
    /\ ConstantPredicates(e.predicate.expression, nodes, out.val.nodes)

\* C5: a predicate selects by the kind its value has for each node at run
\* time.  A Number of integer value k keeps the node at position i iff
\* i = k; a value of any other kind keeps the node iff it is true as a
\* boolean.  So a constantly false predicate yields the empty nodeset, a
\* constantly true one the whole input, and Number(k) with 1 <= k <= N
\* exactly one node.
C5_PredicateSelectsByKind ==
    (expr.kind = "Filter" /\ outcome.status = "ok")
        => FilterSelectsByKind(expr, context, outcome,
                               SelectedFrom(outcome.log))

\* A filter whose predicate is a boolean at position 1 and a number at the
\* other positions kept its first node as a boolean and the others by their
\* position.
C5_Witness ==
    /\ expr.kind = "Filter"
    /\ expr.predicate.expression = Call("first-is-true")
    /\ outcome.status = "ok"
    /\ Len(SelectedFrom(outcome.log)) = NumNodes
    /\ Cardinality(outcome.val.nodes) = NumNodes

----------------------------------------------------------------------------
(* Document-order projection of Filter (C6) *)

\* The nodes of the sequence are those of the set, each once, in document
\* order.
InDocumentOrder(nodes, ns) ==
    /\ IntoNodeset(nodes) = ns
    /\ \A i \in DOMAIN nodes : \A j \in DOMAIN nodes :
            i < j => nodes[i] < nodes[j]

\* The k-th node of the set in document order.
NthInDocument(ns, k) ==
    CHOOSE n \in ns : Cardinality({m \in ns : m <= n}) = k

\* A filter by the number k, 1 <= k <= N, yields the k-th node.
NumberSelectsNth(p, ns, out) ==
    \A k \in 1 .. Cardinality(ns) :
        p = Literal(NumberValue(Num(k)))
            => /\ out.status = "ok"
               /\ out.val = NodesetValue({NthInDocument(ns, k)})

FilterProjects(e, out, selected) ==
    (selected.status = "ok" /\ selected.val.kind = "Nodeset")
        => /\ InDocumentOrder(SelectedFrom(out.log), selected.val.nodes)
           /\ NumberSelectsNth(e.predicate.expression, selected.val.nodes, out)

\* C6: Filter hands its predicate the nodes of the node selector's nodeset
\* sorted by document order, whatever order the nodeset iterates in, so
\* that Filter(E, Literal(Number k)) is the singleton of the k-th node of E
\* in document order.
C6_FilterDocumentOrder ==
    expr.kind = "Filter"
        => FilterProjects(expr, outcome,
                          Evaluate(expr.node_selector, context))

\* A filter by the number 1 over a nodeset that iterates from another node
\* than its first in document order yielded the first in document order.
C6_Witness ==
    /\ expr.kind = "Filter"
    /\ expr.predicate.expression = Literal(NumberValue(Num(1)))
    /\ outcome.status = "ok"
    /\ Cardinality(outcome.val.nodes) = 1
    /\ Len(SelectedFrom(outcome.log)) = NumNodes
    /\ IterationOrder(IntoNodeset(SelectedFrom(outcome.log)), context.hash)[1]
            \notin outcome.val.nodes

----------------------------------------------------------------------------
(* Positions and sizes within a predicate (C7) *)

\* The events of a log at which a predicate starts to select.
Selections(log) == {i \in DOMAIN log : log[i].op = "select"}

\* The events that follow the selection at s up to the next selection or
\* step, or to the end of the log.
SelectionSpan(log, s) ==
    {t \in DOMAIN log :
        /\ t > s
        /\ \A u \in (s + 1) .. t : log[u].op \notin {"select", "step"}}

\* The per-node evaluations of the predicate of the selection at s.
MatchesOf(log, s) == {t \in SelectionSpan(log, s) : log[t].op = "matches"}

\* The event is the evaluation for the node at position `position` of
\* the sequence `nodes`, of size Len(nodes).
NumberedAs(ev, position, nodes) ==
    /\ ev.position = position
    /\ ev.size = Len(nodes)
    /\ 1 <= ev.position /\ ev.position <= ev.size
    /\ ev.node = nodes[position]

\* The evaluations of the selection at s are numbered 1, 2, ... in order,
\* and reach N unless an evaluation failed.
NumberedInOrder(log, s, matches, completed) ==
    /\ \A t \in matches :
            NumberedAs(log[t], Cardinality({u \in matches : u <= t}),
                       log[s].nodes)
    /\ Cardinality(matches) <= Len(log[s].nodes)
    /\ completed => Cardinality(matches) = Len(log[s].nodes)

\* The nodes the selection at s kept, in order.
KeptOf(log, s) ==
    SelectSeq([t \in 1 .. Len(log) |-> [log[t] EXCEPT !.what = t]],
              LAMBDA ev : ev.op = "keep" /\ ev.what \in SelectionSpan(log, s))

\* The selection at s2 follows the selection at s in the same step.
NextInStep(log, s, s2) ==
    /\ s < s2
    /\ \A u \in (s + 1) .. (s2 - 1) : log[u].op \notin {"select", "step"}

\* The selection at s2 is over the nodes that the selection at s kept.
Renumbered(log, s, s2, kept) ==
    log[s2].nodes = [i \in 1 .. Len(kept) |-> kept[i].node]

PositionsAndSizes(log, completed) ==
    /\ \A s \in Selections(log) :
            NumberedInOrder(log, s, MatchesOf(log, s), completed)
    /\ \A s \in Selections(log) : \A s2 \in Selections(log) :
            NextInStep(log, s, s2) => Renumbered(log, s, s2, KeptOf(log, s))

\* C7: within every predicate evaluation the context size is the length N
\* of the sequence the predicate filters and the positions of the successive
\* nodes are 1, 2, ..., N without gaps or repeats, so 1 <= position <= size;
\* a later predicate of a step is numbered over the nodes the previous
\* predicate kept, not over the axis's output.
C7_PredicatePositions ==
    PositionsAndSizes(outcome.log, outcome.status = "ok")

\* The second predicate of a step selected from fewer nodes than the first,
\* and more than none.
C7_Witness ==
    /\ expr.kind = "Path"
    /\ outcome.status = "ok"
    /\ \E s \in Selections(outcome.log) : \E s2 \in Selections(outcome.log) :
            /\ NextInStep(outcome.log, s, s2)
            /\ Len(outcome.log[s2].nodes) < Len(outcome.log[s].nodes)
            /\ Len(outcome.log[s2].nodes) > 0
            /\ outcome.val.nodes # {}

----------------------------------------------------------------------------
(* Union (C8) *)

IsNodeset(r) == r.status = "ok" /\ r.val.kind = "Nodeset"

\* The result holds every node of either operand and nothing else.
IsSetUnion(out, l, r) ==
    /\ IsNodeset(out)
    /\ \A n \in Nodes :
            n \in out.val.nodes <=> (n \in l.val.nodes \/ n \in r.val.nodes)
    /\ out.val.nodes \subseteq Nodes

\* The union with the operands exchanged is the same set.
Commutes(out, swapped) == IsNodeset(swapped) /\ swapped.val = out.val

UnionIsSetUnion(e, ctx, out, l, r) ==
    (IsNodeset(l) /\ IsNodeset(r))
        => /\ IsSetUnion(out, l, r)
           /\ Commutes(out, Evaluate(Union(e.right, e.left), ctx))

\* C8: when both operands evaluate to nodesets, Union(a, b) is the set
\* union of the two nodesets, every node of either operand and nothing
\* else, and Union(a, b) and Union(b, a) are equal sets.
C8_UnionIsSetUnion ==
    expr.kind = "Union"
        => UnionIsSetUnion(expr, context, outcome,
                           Evaluate(expr.left, context),
                           Evaluate(expr.right, context))

\* A union of two nodesets that overlap, neither within the other.
C8_Witness ==
    /\ expr = Union(Variable(Unprefixed("left")), Variable(Unprefixed("right")))
    /\ outcome.status = "ok"
    /\ ValueOf(context, QName(<<>>, "left"))[1].nodes
            \cap ValueOf(context, QName(<<>>, "right"))[1].nodes # {}
    /\ ValueOf(context, QName(<<>>, "left"))[1].nodes
            \ ValueOf(context, QName(<<>>, "right"))[1].nodes # {}
    /\ ValueOf(context, QName(<<>>, "right"))[1].nodes
            \ ValueOf(context, QName(<<>>, "left"))[1].nodes # {}
    /\ Cardinality(outcome.val.nodes) = NumNodes

----------------------------------------------------------------------------
(* NotANodeset (C9) *)

IsNotANodeset(r) == r.status = "err" /\ r.err = NotANodeset

\* The operand was evaluated to a String, a Number or a Boolean.
IsOtherKind(r) == r.status = "ok" /\ r.val.kind # "Nodeset"

\* The sub-expressions an expression evaluates in its own context.
Operands(e) ==
    CASE e.kind \in {"And", "Or", "Equal", "Union", "Math", "Relational"} ->
            {e.left, e.right}
      [] e.kind = "NotEqual" -> {e.equal.left, e.equal.right}
      [] e.kind = "Negation" -> {e.expression}
      [] e.kind = "Function" ->
            {e.arguments[i] : i \in DOMAIN e.arguments}
      [] e.kind = "Path" -> {e.start_point}
      [] e.kind = "Filter" -> {e.node_selector}
      [] OTHER -> {}

\* The expressions of the predicates of an expression, which it evaluates
\* in the contexts of the nodes it selects from.
PredicateExpressions(e) ==
    CASE e.kind = "Filter" -> {e.predicate.expression}
      [] e.kind = "Path" ->
            UNION {{e.steps[i].predicates[j].expression :
                        j \in DOMAIN e.steps[i].predicates} :
                            i \in DOMAIN e.steps}
      [] OTHER -> {}

\* The context of the per-node evaluation that the event records.
ContextOf(ctx, ev) ==
    [ctx EXCEPT !.node = ev.node, !.position = ev.position, !.size = ev.size]

\* The error is that of a sub-expression the evaluation evaluated.
Propagated(e, ctx, log) ==
    \/ \E o \in Operands(e) : IsNotANodeset(Evaluate(o, ctx))
    \/ \E p \in PredicateExpressions(e) : \E t \in DOMAIN log :
            /\ log[t].op = "matches"
            /\ IsNotANodeset(Evaluate(p, ContextOf(ctx, log[t])))

\* The evaluation ended with NotANodeset once the operand was evaluated:
\* its log is `before` and nothing after it.
EndsNotANodeset(out, before) == IsNotANodeset(out) /\ out.log = before

\* A path whose start point, or a filter whose node selector, is of another
\* kind ends there.
OperandMustBeNodeset(e, ctx, out, operand) ==
    IsOtherKind(operand)
        => EndsNotANodeset(out, OwnEvent(e, ctx) \o operand.log)

\* A union ends at its first operand of another kind.
UnionMustBeNodesets(e, ctx, out, l, r) ==
    /\ IsOtherKind(l) => EndsNotANodeset(out, OwnEvent(e, ctx) \o l.log)
    /\ (IsNodeset(l) /\ IsOtherKind(r))
            => EndsNotANodeset(out, OwnEvent(e, ctx) \o l.log \o r.log)

\* The expression itself finds an operand that must be a nodeset to be of
\* another kind.
FindsOtherKind(e, ctx) ==
    CASE e.kind = "Path" -> IsOtherKind(Evaluate(e.start_point, ctx))
      [] e.kind = "Filter" -> IsOtherKind(Evaluate(e.node_selector, ctx))
      [] e.kind = "Union" ->
            \/ IsOtherKind(Evaluate(e.left, ctx))
            \/ /\ IsNodeset(Evaluate(e.left, ctx))
               /\ IsOtherKind(Evaluate(e.right, ctx))
      [] OTHER -> FALSE

NotANodesetWhenOtherKind(e, ctx, out) ==
    CASE e.kind = "Path" ->
            OperandMustBeNodeset(e, ctx, out, Evaluate(e.start_point, ctx))
      [] e.kind = "Filter" ->
            OperandMustBeNodeset(e, ctx, out, Evaluate(e.node_selector, ctx))
      [] e.kind = "Union" ->
            UnionMustBeNodesets(e, ctx, out, Evaluate(e.left, ctx),
                                Evaluate(e.right, ctx))
      [] OTHER -> TRUE

\* C9: NotANodeset is returned exactly when an operand that must be a
\* nodeset is evaluated to a String, a Number or a Boolean: the start point
\* of a Path, the node selector of a Filter, an operand of a Union.  Then
\* no step, predicate or union is applied.  No other variant produces
\* NotANodeset itself: it only passes on that of a sub-expression.
C9_NotANodesetExactly ==
    expr # NotEvaluated
        => /\ NotANodesetWhenOtherKind(expr, context, outcome)
           /\ (IsNotANodeset(outcome)
                => \/ FindsOtherKind(expr, context)
                   \/ Propagated(expr, context, outcome.log))

\* A path from a string with a step: NotANodeset, and no step was applied.
C9_Witness ==
    /\ expr.kind = "Path"
    /\ expr.start_point = Literal(StringValue(Hello))
    /\ Len(expr.steps) > 0
    /\ IsNotANodeset(outcome)
    /\ \A t \in DOMAIN outcome.log : outcome.log[t].op # "step"

----------------------------------------------------------------------------
(* Name resolution of Variable and Function (C10) *)

HasPrefix(name) == name.prefix # <<>>

\* The name's prefix has no namespace binding in the context.
PrefixUnbound(ctx, name) ==
    HasPrefix(name) /\ name.prefix[1] \notin DOMAIN ctx.namespaces

\* The qualified name of a name that resolves: no namespace URI without a
\* prefix, the URI bound to the prefix otherwise.
Qualified(ctx, name) ==
    IF HasPrefix(name)
    THEN <<(<<ctx.namespaces[name.prefix[1]]>>), name.local>>
    ELSE <<(<<>>), name.local>>

FailsWith(e, ctx, out, error) ==
    /\ out.status = "err"
    /\ out.err = error
    /\ out.log = OwnEvent(e, ctx)

IsUnknownNamespace(out) ==
    out.status = "err" /\ out.err.kind = "UnknownNamespace"

\* What the bindings `bound` of the context hold for the name decides, once
\* the name resolved: `unknown` is the error of a name without a binding.
ResolvesIn(e, ctx, out, bound, unknown) ==
    /\ PrefixUnbound(ctx, e.name)
            => FailsWith(e, ctx, out, UnknownNamespace(e.name.prefix[1]))
    /\ (~PrefixUnbound(ctx, e.name)
            /\ Qualified(ctx, e.name) \notin DOMAIN bound)
            => FailsWith(e, ctx, out, unknown)
    /\ ~HasPrefix(e.name) => ~IsUnknownNamespace(out)
    /\ (~PrefixUnbound(ctx, e.name) /\ Qualified(ctx, e.name) \in DOMAIN bound)
            => /\ ~IsUnknownNamespace(out)
               /\ ~(out.status = "err" /\ out.err = unknown)

\* A variable whose name is bound yields the bound value.
YieldsBoundValue(e, ctx, out) ==
    (~PrefixUnbound(ctx, e.name)
        /\ Qualified(ctx, e.name) \in DOMAIN ctx.variables)
        => /\ out.status = "ok"
           /\ out.val = ctx.variables[Qualified(ctx, e.name)]

\* C10: a Variable or Function whose name has a prefix without a namespace
\* binding fails with UnknownNamespace(prefix), whatever variables and
\* functions are bound; otherwise a name without a binding fails with
\* UnknownVariable(name), or UnknownFunction(name), of the name as written;
\* a name without a prefix resolves with no namespace URI and never fails
\* with UnknownNamespace; a bound variable yields its bound value.
C10_NameResolution ==
    /\ expr.kind = "Variable"
            => /\ ResolvesIn(expr, context, outcome, context.variables,
                             UnknownVariable(expr.name))
               /\ YieldsBoundValue(expr, context, outcome)
    /\ expr.kind = "Function"
            => ResolvesIn(expr, context, outcome, context.functions,
                          UnknownFunction(expr.name))

\* A variable of an unbound prefix failed with UnknownNamespace though a
\* variable of its local name is bound in no namespace and in another.
C10_Witness ==
    /\ expr.kind = "Variable"
    /\ expr.name = Name(<<"q">>, "f")
    /\ DOMAIN context.namespaces = {"p"}
    /\ DOMAIN context.variables = BoundNames
    /\ outcome.status = "err"
    /\ outcome.err = UnknownNamespace("q")

----------------------------------------------------------------------------
(* Function calls (C11) *)

\* The call's name resolves and a function is bound to it.
FunctionFound(e, ctx) ==
    /\ ~PrefixUnbound(ctx, e.name)
    /\ Qualified(ctx, e.name) \in DOMAIN ctx.functions

\* The events of evaluating the arguments from the i-th to the j-th, one
\* after the other.
RECURSIVE ArgumentLogs(_, _, _, _)
ArgumentLogs(arguments, ctx, i, j) ==
    IF i > j THEN <<>>
    ELSE Evaluate(arguments[i], ctx).log
            \o ArgumentLogs(arguments, ctx, i + 1, j)

\* The arguments that do not evaluate to a value.
FailingArguments(arguments, ctx) ==
    {i \in DOMAIN arguments : Evaluate(arguments[i], ctx).status # "ok"}

CallEvent(e, ctx) == <<Event("call", e.name.local, ctx, <<>>)>>

IsPrefix(s, t) == Len(s) <= Len(t) /\ SubSeq(t, 1, Len(s)) = s

\* The claim as stated: once the function is found, every argument is
\* evaluated, in declaration order.
C11_EveryArgumentEvaluated ==
    (expr.kind = "Function" /\ FunctionFound(expr, context))
        => IsPrefix(OwnEvent(expr, context)
                        \o ArgumentLogs(expr.arguments, context, 1,
                                        Len(expr.arguments)),
                    outcome.log)

\* What the function found does with the values of the arguments.
Invoked(fun, arguments, ctx, out) ==
    CASE fun.kind = "argument" /\ fun.value.num.h \div 100 \in DOMAIN arguments ->
            /\ out.status = "ok"
            /\ out.val = Evaluate(arguments[fun.value.num.h \div 100], ctx).val
      [] fun.kind = "argument" /\ fun.value.num.h \div 100 \notin DOMAIN arguments ->
            out.status = "err" /\ out.err = FunctionEvaluation("TooFewArguments")
      [] fun.kind = "fails" ->
            out.status = "err" /\ out.err = FunctionEvaluation(fun.error)
      [] OTHER -> out.status = "ok" /\ out.val = fun.value

\* Every argument has a value: all were evaluated in order, then the
\* function was invoked with the values in that order.
AllThenInvoked(e, ctx, out) ==
    /\ out.log = OwnEvent(e, ctx)
                    \o ArgumentLogs(e.arguments, ctx, 1, Len(e.arguments))
                    \o CallEvent(e, ctx)
    /\ Invoked(ctx.functions[Qualified(ctx, e.name)], e.arguments, ctx, out)

\* The k-th argument is the first without a value: the evaluation ends with
\* it and its result, and the function is not invoked.
EndsAtArgument(e, ctx, out, k) ==
    /\ out.log = OwnEvent(e, ctx) \o ArgumentLogs(e.arguments, ctx, 1, k)
    /\ out.status = Evaluate(e.arguments[k], ctx).status
    /\ out.err = Evaluate(e.arguments[k], ctx).err

ArgumentsThenCall(e, ctx, out, failing) ==
    IF failing = {}
    THEN AllThenInvoked(e, ctx, out)
    ELSE EndsAtArgument(e, ctx, out,
                        CHOOSE k \in failing : \A j \in failing : k <= j)

\* C11 (amended): a Function call resolves its name, then looks up the
\* function, then evaluates its arguments in declaration order, whatever
\* their values, until one fails.  If none fails, the function is invoked
\* with the context and the vector of the values in the same order, and an
\* error it raises is returned as FunctionEvaluation(inner).  If one fails,
\* no later argument is evaluated, the function is not invoked and that
\* error is returned.
C11_ArgumentsUntilFailure ==
    expr.kind = "Function"
        => IF FunctionFound(expr, context)
           THEN ArgumentsThenCall(expr, context, outcome,
                                  FailingArguments(expr.arguments, context))
           ELSE outcome.status = "err" /\ outcome.log = OwnEvent(expr, context)

\* A call with two arguments of a function that returns its second
\* argument: both were evaluated, the first being false, and the second is
\* the result.
C11_Witness ==
    /\ expr.kind = "Function"
    /\ expr.arguments = <<Literal(BooleanValue(FALSE)),
                          Literal(StringValue(Hello))>>
    /\ FunctionFound(expr, context)
    /\ context.functions[Qualified(context, expr.name)]
            = [kind |-> "argument", value |-> NumberValue(Num(2)),
               error |-> ""]
    /\ outcome.status = "ok"
    /\ outcome.val = StringValue(Hello)

----------------------------------------------------------------------------
(* Paths (C12) *)

\* A path without steps yields the nodeset of its start point.
EmptyPathIsStart(e, out, start) ==
    (e.steps = <<>> /\ IsNodeset(start))
        => out.status = "ok" /\ out.val = start.val

\* The steps that were run, in the order they were run: the axes of the
\* `step` events.
StepsRun(log) ==
    [i \in 1 .. Cardinality({t \in DOMAIN log : log[t].op = "step"}) |->
        log[CHOOSE t \in DOMAIN log :
                /\ log[t].op = "step"
                /\ Cardinality({u \in 1 .. t : log[u].op = "step"}) = i].what]

\* The steps were run in declaration order, all of them unless one failed.
InDeclarationOrder(e, out) ==
    /\ IsPrefix(StepsRun(out.log), [i \in DOMAIN e.steps |-> e.steps[i].axis])
    /\ out.status = "ok" => Len(StepsRun(out.log)) = Len(e.steps)

SameResult(a, b) == a.status = b.status /\ a.val = b.val /\ a.err = b.err

\* The path's result is that of its last step over the result of the path
\* of the steps before it.
ThreadsSteps(e, ctx, out, start) ==
    (Len(e.steps) >= 1 /\ IsNodeset(start))
        => /\ InDeclarationOrder(e, out)
           /\ SameResult(out,
                Evaluate(Path(Path(e.start_point,
                                   SubSeq(e.steps, 1, Len(e.steps) - 1)),
                              <<e.steps[Len(e.steps)]>>), ctx))

PathThreads(e, ctx, out, start) ==
    /\ EmptyPathIsStart(e, out, start)
    /\ ThreadsSteps(e, ctx, out, start)

\* C12: a Path without steps is the identity on nodesets: if the start
\* point evaluates to the nodeset S, Path(start, []) evaluates to
\* Nodeset(S).  A Path threads the start nodeset through its steps in
\* declaration order, each step's output being the input of the next.
C12_PathThreadsSteps ==
    expr.kind = "Path"
        => PathThreads(expr, context, outcome,
                       Evaluate(expr.start_point, context))

\* A path of two steps that reach different nodes in the other order: from
\* a child, the parent and then the children.
C12_Witness ==
    /\ expr.kind = "Path"
    /\ Len(expr.steps) = 2
    /\ expr.steps[1].axis = "parent"
    /\ expr.steps[2].axis = "child"
    /\ expr.steps[2].predicates = <<>>
    /\ expr.steps[2].node_test = AnyNode
    /\ outcome.status = "ok"
    /\ outcome.val.nodes = Nodes \ {RootOfDocument}
    /\ ValueOf(context, QName(<<>>, "left"))[1].nodes # {}

\* A path without steps from a nodeset of several nodes yielded them.
C12_WitnessEmpty ==
    /\ expr.kind = "Path"
    /\ expr.steps = <<>>
    /\ outcome.status = "ok"
    /\ Cardinality(outcome.val.nodes) = NumNodes

----------------------------------------------------------------------------
(* Axis application of a step (C13) *)

\* The indices of a set, in ascending order.
RECURSIVE Ascending(_)
Ascending(indices) ==
    IF indices = {} THEN <<>>
    ELSE <<CHOOSE t \in indices : \A u \in indices : t <= u>>
            \o Ascending(indices
                    \ {CHOOSE t \in indices : \A u \in indices : t <= u})

\* The events at which a step starts.
StepEvents(log) == Ascending({t \in DOMAIN log : log[t].op = "step"})

\* The events between the start of a step at t and its first selection, or
\* the next step, or the end.
AxisSpan(log, t) ==
    {u \in DOMAIN log :
        /\ u > t
        /\ \A w \in (t + 1) .. u : log[w].op \notin {"select", "step"}}

\* The invocations of axis.select_nodes of the step that starts at t.
AxisCalls(log, t) ==
    Ascending({u \in AxisSpan(log, t) : log[u].op = "select_nodes"})

\* The selections of the step that starts at t.
SelectionsOfStep(log, t) ==
    Ascending({u \in DOMAIN log :
                /\ u > t
                /\ log[u].op = "select"
                /\ \A w \in (t + 1) .. u : log[w].op # "step"})

\* Each invocation is in a fresh context of one input node, at position 1
\* of 1, and every input node has exactly one invocation.
OncePerNode(log, calls, input) ==
    /\ Len(calls) = Cardinality(input)
    /\ {log[calls[i]].node : i \in DOMAIN calls} = input
    /\ \A i \in DOMAIN calls :
            log[calls[i]].position = 1 /\ log[calls[i]].size = 1

\* What the invocations from the i-th on emit, one emission after the other.
RECURSIVE Emissions(_, _, _, _, _)
Emissions(step, ctx, log, calls, i) ==
    IF i > Len(calls) THEN <<>>
    ELSE AxisSelectNodes(step.axis, step.node_test,
                         ContextOf(ctx, log[calls[i]]))
            \o Emissions(step, ctx, log, calls, i + 1)

\* The step hands the concatenation of the emissions to its first
\* predicate, once; without predicates the emissions are its result.
OverAllEmissions(step, out, log, selections, emitted, last) ==
    /\ Len(selections) <= Len(step.predicates)
    /\ out.status = "ok" => Len(selections) = Len(step.predicates)
    /\ step.predicates # <<>>
            => /\ Len(selections) >= 1
               /\ log[selections[1]].nodes = emitted
    /\ (step.predicates = <<>> /\ last /\ out.status = "ok")
            => out.val.nodes = IntoNodeset(emitted)

\* The i-th step of the path, which starts at the event t, over the input
\* that the steps before it yield.
AxisApplied(e, ctx, out, i, t, input) ==
    /\ input.status = "ok"
    /\ OncePerNode(out.log, AxisCalls(out.log, t), input.val.nodes)
    /\ OverAllEmissions(e.steps[i], out, out.log,
                        SelectionsOfStep(out.log, t),
                        Emissions(e.steps[i], ctx, out.log,
                                  AxisCalls(out.log, t), 1),
                        i = Len(e.steps))

AxisAppliedInSteps(e, ctx, out, starts) ==
    \A i \in DOMAIN starts :
        AxisApplied(e, ctx, out, i, starts[i],
                    Evaluate(Path(e.start_point, SubSeq(e.steps, 1, i - 1)),
                             ctx))

\* C13: a step invokes axis.select_nodes exactly once for each node of its
\* input nodeset, not at all for an empty input, each time in a fresh
\* context of that node at position 1 of 1.  The invocations append to one
\* output sequence: the first predicate is given the concatenation of the
\* emissions, so the predicates run over all emissions together and not
\* per starting node.
C13_AxisOncePerNode ==
    expr.kind = "Path"
        => AxisAppliedInSteps(expr, context, outcome,
                              StepEvents(outcome.log))

\* A step with a predicate from every node: one invocation per node, and
\* one selection from the emissions of all of them.
C13_Witness ==
    /\ expr.kind = "Path"
    /\ Len(expr.steps) = 1
    /\ expr.steps[1].axis = "self"
    /\ Len(expr.steps[1].predicates) = 1
    /\ outcome.status = "ok"
    /\ Len(AxisCalls(outcome.log, StepEvents(outcome.log)[1])) = NumNodes
    /\ Len(SelectionsOfStep(outcome.log, StepEvents(outcome.log)[1])) = 1
    /\ Len(SelectedFrom(outcome.log)) = NumNodes

----------------------------------------------------------------------------
(* Step determinism (C14) *)

\* The evaluation has the same result when the starting nodeset iterates in
\* the order `hash`.
SameInOrder(e, ctx, out, hash) ==
    SameResult(out, Evaluate(e, [ctx EXCEPT !.hash = hash]))

\* C14: the same step (axis, node test and predicates, positional ones
\* included) on the same starting nodeset yields an equal result nodeset
\* on every evaluation: the result does not depend on the order in which
\* the nodes of the starting nodeset are iterated.
C14_StepDeterminism ==
    (expr.kind = "Path" /\ Len(expr.steps) = 1)
        => \A hash \in HashOrders : SameInOrder(expr, context, outcome, hash)

----------------------------------------------------------------------------
(* Numeric predicates (C15) *)

\* The number is exactly the position i.
IsPosition(n, i) == n.cls = "fin" /\ n.h = 100 * i

\* The node at position i, whose predicate has the value v, is kept iff v
\* is no Number or is the number i.
KeptIfEqual(value, i, kept) ==
    (value.status = "ok" /\ value.val.kind = "Number")
        => (kept <=> IsPosition(value.val.num, i))

SelectsEqualPositions(predicate, contexts, result) ==
    \A i \in DOMAIN contexts :
        KeptIfEqual(Evaluate(predicate.expression, contexts[i]), i,
                    contexts[i].node \in result)

\* C15: when a predicate evaluates to a Number v, the node at position i is
\* kept iff i = v.  A non-integer v such as 1.5, and a zero, negative, NaN
\* or infinite v, is false at every position and selects no node.
C15_NumberPredicateExact ==
    (expr.kind = "Filter" /\ outcome.status = "ok")
        => SelectsEqualPositions(expr.predicate,
                                 NewContextsFor(context,
                                                SelectedFrom(outcome.log)),
                                 outcome.val.nodes)

----------------------------------------------------------------------------
(* Errors in the predicate engine (C16) *)

\* The number of events of kind `op` among the events from..to of the log.
CountOf(log, op, from, to) ==
    Cardinality({u \in from .. to : log[u].op = op})

\* The event at which the step that runs at the event t started.
StepOf(log, t) ==
    CHOOSE u \in 1 .. t :
        /\ log[u].op = "step"
        /\ \A w \in (u + 1) .. t : log[w].op # "step"

\* The expression of the predicate that is evaluated at the event t, a
\* per-node evaluation: the filter's predicate, or the predicate of the
\* running step that the last selection started.
AppliedAt(e, log, t) ==
    IF e.kind = "Filter"
    THEN e.predicate.expression
    ELSE e.steps[CountOf(log, "step", 1, t)]
            .predicates[CountOf(log, "select", StepOf(log, t), t)].expression

\* The events of the predicate engine: a per-node evaluation, an accepted
\* node, a selection, a step, an axis invocation.
EngineEvents == {"matches", "keep", "select", "step", "select_nodes"}

\* The per-node evaluation at t failed as `failed`: the evaluation of the
\* filter or path ends with it, with its error, and yields no node.
FailsFast(out, t, failed) ==
    /\ out.log = SubSeq(out.log, 1, t) \o failed.log
    /\ \A u \in (t + 1) .. Len(out.log) : out.log[u].op \notin EngineEvents
    /\ out.status = "err"
    /\ out.err = failed.err
    /\ out.val = NoValue

FailFastAt(out, t, value) == value.status # "ok" => FailsFast(out, t, value)

PredicateErrorsFailFast(e, ctx, out) ==
    \A t \in DOMAIN out.log :
        out.log[t].op = "matches"
            => FailFastAt(out, t,
                          Evaluate(AppliedAt(e, out.log, t),
                                   ContextOf(ctx, out.log[t])))

\* C16: if the evaluation of a predicate fails for the node at position i,
\* the predicate is not evaluated for a node after position i, no later
\* predicate of the step and no later step of the path is run, the nodes
\* accepted before are discarded, and the Filter or Path returns that error
\* unchanged.
C16_PredicateErrorsFailFast ==
    expr.kind \in {"Filter", "Path"}
        => PredicateErrorsFailFast(expr, context, outcome)

\* The first step of a path of two steps accepted its first node and failed
\* on the second of several: the path ended there with the error.
C16_Witness ==
    /\ expr.kind = "Path"
    /\ Len(expr.steps) = 2
    /\ expr.steps[1].predicates = <<Predicate(FailsAfterFirst)>>
    /\ outcome.status = "err"
    /\ outcome.err = FunctionEvaluation("Other")
    /\ CountOf(outcome.log, "keep", 1, Len(outcome.log)) = 1
    /\ CountOf(outcome.log, "matches", 1, Len(outcome.log)) = 2
    /\ CountOf(outcome.log, "step", 1, Len(outcome.log)) = 1
    /\ Len(SelectedFrom(outcome.log)) = NumNodes - 1

====
